---- MODULE Spec2Model ----
(***************************************************************************)
(* Docs Assistant RAG Demo: the ingestion pipeline, the vector index, the  *)
(* query endpoints (validation, rate limit, retrieval) and the streaming   *)
(* session controller of POST /query/stream.                               *)
(*                                                                         *)
(* The backend is modelled from the design specification, and where the   *)
(* repository's enhancement backlog (backend/docs/expense_policy.md) tells *)
(* what the pipeline does today, from the backlog.  Event and result       *)
(* shapes follow the frontend's mock server (frontend/src/test/handlers).  *)
(*                                                                         *)
(* The frontend is translated from frontend/src/App.tsx and the QueryInput *)
(* component: the question form and handleAsk, the Sources and Retrieved   *)
(* Chunks panels, the theme, the document browser and the citation links,  *)
(* the state kept in sessionStorage, the functions of frontend/src/utils   *)
(* and the mobile drawer of the DocBrowser component.                      *)
(***************************************************************************)
EXTENDS Integers, Sequences, FiniteSets, TLC

VARIABLES
    corpus,      \* document id -> text of the document on disk
    index,       \* the vector index: IndexedChunks in insertion order
    ipc,         \* ingestion run: "idle", "running", "done"
    todo,        \* documents of the running ingestion not yet processed
    report,      \* IngestionReport of the current / last run
    last,        \* snapshot taken when the previous run returned
    seen,        \* what the latest search during an ingestion run returned
    window,      \* client -> requests admitted in the current rate window
    req,         \* the request being served, with the verdict it got
    sstate,      \* streaming session: IDLE, REJECTED, RETRIEVING, STREAMING,
                 \* DONE, ERROR
    qvec,        \* embedding of the query, NoVec until it is computed
    stream,      \* the generation provider's fragment stream
    events,      \* StreamEvents emitted to the caller so far
    calls,       \* provider and index calls made for the request
    fail,        \* where the session failed and how many tokens were out
    query,       \* App: text in the question textarea
    loading,     \* App: a handleAsk call is waiting for its response
    error,       \* App: error message shown, NoError for null
    submittedQuery, \* App: question shown, NoText for null
    answer,      \* App: answer shown, NoAnswer for null
    sources,     \* App: source file names of the answer
    chunks,      \* App: retrieved chunks of the answer
    sourcesOpen, \* App: the Sources panel is expanded
    chunksOpen,  \* App: the Retrieved Chunks panel is expanded
    inflight,    \* POST /query requests that have not settled yet
    session,     \* sessionStorage entry docs-assistant-state
    lastAsked,   \* the request handleAsk sent last: whether it is pending
    darkMode,    \* App: dark theme is on
    theme,       \* localStorage entry docs-assistant-theme
    themeLog,    \* theme state before each of the last two toggle clicks
    view,        \* App: page shown and the document selected on it
    docList,     \* App: file names listed in the docs sidebar
    docContent,  \* App: content of the selected document
    tasks,       \* GET /api/docs requests that have not settled yet
    listLoaded,  \* a non-empty document list has been loaded
    props,       \* QueryInput: the props of the latest render
    call,        \* utils: the function applied last, its argument and result
    drawer,      \* DocBrowser: drawerOpen and drawerClosing
    ev           \* the latest user or network event and what it called

ingestVars == <<corpus, index, ipc, todo, report, last, seen>>

queryVars == <<window, req, sstate, qvec, stream, events, calls, fail>>

askVars == <<query, loading, error, submittedQuery, answer, sources, chunks,
             sourcesOpen, chunksOpen, inflight, session, lastAsked>>

docsVars == <<darkMode, theme, themeLog, view, docList, docContent, tasks,
              listLoaded>>

uiVars == <<askVars, docsVars, props, call, drawer, ev>>

vars == <<corpus, index, ipc, todo, report, last, seen,
          window, req, sstate, qvec, stream, events, calls, fail,
          query, loading, error, submittedQuery, answer, sources, chunks,
          sourcesOpen, chunksOpen, inflight, session, lastAsked,
          darkMode, theme, themeLog, view, docList, docContent, tasks,
          listLoaded, props, call, drawer, ev>>

----------------------------------------------------------------------------
(* Bounds of the model *)

MaxLen == 3          \* longest document text, in characters
MaxQueryLen == 2     \* longest query text, in characters
MaxFrags == 2        \* most fragments the generation provider streams

(* Configuration of the pipeline *)

CHUNK_SIZE == 2      \* chunk target size
CHUNK_OVERLAP == 1   \* chunk overlap size
DIM == 4             \* dimensionality of the embeddings
MAX_TOP_K == 20      \* largest top_k a query may ask for
RATE_LIMIT == 10     \* requests per client and minute on the query endpoints
RETRY_LIMIT == 0     \* retries of a failed provider call

\* revisions of a document's text: same length, different characters
Revs == {1, 2}

NoDoc == [len |-> 0, rev |-> 1]

DocIds == <<"faq.md", "guide.md">>

DocSet == {DocIds[i] : i \in 1..Len(DocIds)}

Texts == {NoDoc} \cup [len : 1..MaxLen, rev : Revs]

----------------------------------------------------------------------------
(* Chunker *)

Min(a, b) == IF a < b THEN a ELSE b

ChunkStep == CHUNK_SIZE - CHUNK_OVERLAP

\* number of chunks of a text of n characters: none for the empty text, one
\* when it fits the target size, then one more per step
ChunkCount(n) ==
    IF n = 0 THEN 0
    ELSE IF n <= CHUNK_SIZE THEN 1
    ELSE 1 + ((n - CHUNK_SIZE) + ChunkStep - 1) \div ChunkStep

\* Chunk.id = {document_id}::{sequence_index}
ChunkId(d, i) == <<d, i>>

\* the document id of a chunk id: the part before "::"
DocOfId(id) == id[1]

\* the substring [s, e) of revision rev of a text
Substring(text, s, e) == <<text.rev, s, e>>

split(d, text) ==
    [i \in 1..ChunkCount(text.len) |->
        LET s == (i - 1) * ChunkStep
            e == Min(s + CHUNK_SIZE, text.len)
        IN  [id |-> ChunkId(d, i - 1), document_id |-> d,
             start_offset |-> s, end_offset |-> e,
             text |-> Substring(text, s, e)]]

----------------------------------------------------------------------------
(* Embedding client *)

RECURSIVE SumSeq(_)
SumSeq(s) == IF s = <<>> THEN 0 ELSE Head(s) + SumSeq(Tail(s))

embed(text) == SumSeq(text) % DIM

----------------------------------------------------------------------------
(* Vector index *)

IndexedChunk(c) ==
    [id |-> c.id, document_id |-> c.document_id, text |-> c.text,
     vector |-> embed(c.text)]

Ids(ix) == {ix[i].id : i \in 1..Len(ix)}

Position(ix, id) == CHOOSE i \in 1..Len(ix) : ix[i].id = id

\* upsert of one IndexedChunk: overwrite in place by id, else append
UpsertOne(ix, ic) ==
    IF ic.id \in Ids(ix)
    THEN [ix EXCEPT ![Position(ix, ic.id)] = ic]
    ELSE Append(ix, ic)

RECURSIVE upsert(_, _)
upsert(ix, ics) ==
    IF ics = <<>> THEN ix
    ELSE upsert(UpsertOne(ix, Head(ics)), Tail(ics))

\* the entries of the index that belong to document d, in index order
ChunksOfDoc(ix, d) == SelectSeq(ix, LAMBDA ic : ic.document_id = d)

\* what an index holds for d after a clean ingestion of text
Indexed(d, text) == [i \in 1..ChunkCount(text.len) |-> IndexedChunk(split(d, text)[i])]

Similarity(q, v) == DIM - (IF q < v THEN v - q ELSE q - v)

\* position of the best remaining entry: highest similarity, earliest inserted
Best(ix, q, left) ==
    CHOOSE i \in left :
        \A j \in left :
            \/ Similarity(q, ix[i].vector) > Similarity(q, ix[j].vector)
            \/ /\ Similarity(q, ix[i].vector) = Similarity(q, ix[j].vector)
               /\ i <= j

RECURSIVE Rank(_, _, _, _)
Rank(ix, q, left, k) ==
    IF k = 0 \/ left = {} THEN <<>>
    ELSE LET b == Best(ix, q, left)
         IN  <<[doc_id |-> ix[b].id, score |-> Similarity(q, ix[b].vector),
                text |-> ix[b].text]>>
             \o Rank(ix, q, left \ {b}, k - 1)

search(ix, q, k) == Rank(ix, q, 1..Len(ix), k)

----------------------------------------------------------------------------
(* Query side: constants *)

\* the query side at rest: no request, no session, empty rate windows
Clients == {"c1", "c2"}

NoRequest == [client |-> "none", query |-> <<>>, top_k |-> 0, ordinal |-> 0,
              verdict |-> "none"]

NoVec == -1

NoCalls == [embed |-> 0, search |-> 0, generate |-> 0]

NoFailure == [stage |-> "none", tokens |-> 0]

NoStream == [started |-> FALSE, pos |-> 0]

QueryIdle ==
    /\ window = [c \in Clients |-> 0]
    /\ req = NoRequest
    /\ sstate = "IDLE"
    /\ qvec = NoVec
    /\ stream = NoStream
    /\ events = <<>>
    /\ calls = NoCalls
    /\ fail = NoFailure

----------------------------------------------------------------------------
(* Frontend (App.tsx): the values of the view state before any interaction *)

\* null of a text (submittedQuery); texts are sequences of Chars
NoText == <<-1>>

\* null of the error message; messages are tuples of their parts
NoError == <<>>

\* null of the answer; answers are strings
NoAnswer == "<null>"

\* null of a file name (view.selected)
NoFile == "<null>"

Home == [page |-> "home", selected |-> NoFile]

\* docContent: undefined (not loaded yet), null (failed), or the loaded text;
\* a text is the tuple of its parts, the empty string the empty tuple
Undefined == [state |-> "undefined", text |-> <<>>]

Null == [state |-> "null", text |-> <<>>]

NoFetch == [query |-> NoText, top_k |-> 0]

NoOutcome == [settled |-> "pending", ok |-> FALSE, status |-> 0,
              isError |-> FALSE, message |-> "", answer |-> NoAnswer,
              sources |-> <<>>, chunks |-> <<>>]

NoEvent == [kind |-> "none", key |-> "", shift |-> FALSE, typed |-> NoText,
            calls |-> 0, sent |-> NoFetch, outcome |-> NoOutcome]

NoProps == [query |-> <<>>, loading |-> FALSE, showReset |-> "omitted"]

NoCall == [fn |-> "none", arg |-> <<>>, result |-> <<>>]

DrawerClosed == [open |-> FALSE, closing |-> FALSE]

\* sessionStorage.getItem(STORAGE_KEY) when there is no entry
NoEntry == <<>>

PersistedState(q, a, s, c) ==
    [submittedQuery |-> q, answer |-> a, sources |-> s, chunks |-> c]

\* JSON.stringify of a PersistedState, and JSON.parse of the entry
Stringify(state) == <<"json", state>>

Parse(raw) == raw[2]

NavigationTypes == {"navigate", "reload", "back_forward"}

\* what loadPersistedState returns: null, or the state the entry holds
NotSaved == [null |-> TRUE, state |-> PersistedState(NoText, NoAnswer, <<>>, <<>>)]

Saved(state) == [null |-> FALSE, state |-> state]

\* a loadPersistedState that reads the entry whatever the navigation was
LoadWhateverNavigation(navType, raw) ==
    [saved |-> IF raw # NoEntry THEN Saved(Parse(raw)) ELSE NotSaved,
     entry |-> raw]

\* loadPersistedState: what it returns and the entry it leaves behind
loadPersistedState(navType, raw) ==
    IF navType = "reload"
    THEN [saved |-> NotSaved, entry |-> NoEntry]
    ELSE [saved |-> IF raw # NoEntry THEN Saved(Parse(raw)) ELSE NotSaved,
          entry |-> raw]

\* the request handleAsk sent last: whether it is still pending
NothingAsked == [pending |-> FALSE]

\* localStorage.getItem(THEME_KEY) when the App mounts: no entry, the two
\* values the App writes, and a value something else wrote
NoTheme == "<null>"

StoredThemes == {NoTheme, "dark", "light", "system"}

\* an initial mode that is dark for every stored value but 'light'
DarkUnlessLight(stored) == stored # "light"

\* the initial value of darkMode
InitialDarkMode(stored) == IF stored # NoTheme THEN stored = "dark" ELSE TRUE

\* the theme effect: the value it stores for a mode
ThemeValue(mode) == IF mode THEN "dark" ELSE "light"

AskIdle ==
    /\ query = <<>>
    /\ loading = FALSE
    /\ error = NoError
    /\ submittedQuery = NoText
    /\ answer = NoAnswer
    /\ sources = <<>>
    /\ chunks = <<>>
    /\ sourcesOpen = FALSE
    /\ chunksOpen = FALSE
    /\ inflight = <<>>
    /\ session = Stringify(PersistedState(NoText, NoAnswer, <<>>, <<>>))
    /\ lastAsked = NothingAsked

DocsIdle ==
    /\ darkMode = TRUE
    /\ theme = "dark"
    /\ themeLog = <<>>
    /\ view = Home
    /\ docList = <<>>
    /\ docContent = Undefined
    /\ tasks = <<>>
    /\ listLoaded = FALSE

UiIdle ==
    /\ AskIdle
    /\ DocsIdle
    /\ props = NoProps
    /\ call = NoCall
    /\ drawer = DrawerClosed
    /\ ev = NoEvent

----------------------------------------------------------------------------
(* Ingestion pipeline *)

Stages == {"chunk", "embed", "upsert"}

EmptyReport == [chunks_written |-> 0, documents_processed |-> 0, errors |-> {}]

NothingSeen == [during |-> "idle", results |-> <<>>]

FailedDocs(r) == {e.doc : e \in r.errors}

\* a delete that leaves the newest entry of the collection behind
DeleteAllButNewest(ix) == IF ix = <<>> THEN <<>> ELSE <<ix[Len(ix)]>>

\* the run starts by deleting and recreating the whole collection
RecreateCollection(ix) == <<>>

\* one document chunked, embedded and upserted as one batch
IndexDocument(ix, d, text) == upsert(ix, Indexed(d, text))

\* a failure on one document that is raised and ends the run
AbortOnItemError(rest) == [todo |-> <<>>, ipc |-> "raised"]

\* a failure on one document: it is recorded and the run goes on with the rest
OnItemError(rest) == [todo |-> Tail(rest), ipc |-> "running"]

IngestStart ==
    /\ ipc = "idle"
    /\ ipc' = "running"
    /\ index' = RecreateCollection(index)
    /\ todo' = DocIds
    /\ report' = EmptyReport
    /\ seen' = NothingSeen
    /\ UNCHANGED <<corpus, last>>
    /\ UNCHANGED <<queryVars, uiVars>>

IngestDocument ==
    /\ ipc = "running"
    /\ todo # <<>>
    /\ LET d == Head(todo) IN
       \/ /\ index' = IndexDocument(index, d, corpus[d])
          /\ report' = [report EXCEPT
                 !.chunks_written = @ + ChunkCount(corpus[d].len),
                 !.documents_processed = @ + 1]
          /\ todo' = Tail(todo)
          /\ ipc' = "running"
       \/ \E stage \in Stages :
          /\ report' = [report EXCEPT
                 !.errors = @ \cup {[doc |-> d, stage |-> stage]}]
          /\ todo' = OnItemError(todo).todo
          /\ ipc' = OnItemError(todo).ipc
          /\ UNCHANGED index
    /\ UNCHANGED <<corpus, last, seen>>
    /\ UNCHANGED <<queryVars, uiVars>>

IngestFinish ==
    /\ ipc = "running"
    /\ todo = <<>>
    /\ ipc' = "done"
    /\ UNCHANGED <<corpus, index, todo, report, last, seen>>
    /\ UNCHANGED <<queryVars, uiVars>>

\* the report is handed to the caller; the finished run becomes the previous one
IngestReturn ==
    /\ ipc \in {"done", "raised"}
    /\ ipc' = "idle"
    /\ last' = [index |-> index, failed |-> FailedDocs(report),
                corpus |-> corpus, valid |-> ipc = "done"]
    /\ todo' = <<>>
    /\ report' = EmptyReport
    /\ seen' = NothingSeen
    /\ UNCHANGED <<corpus, index>>
    /\ UNCHANGED <<queryVars, uiVars>>

\* one document of the corpus is rewritten between two runs
EditDocument ==
    /\ ipc = "idle"
    /\ corpus = last.corpus
    /\ \E d \in DocSet, t \in Texts :
        /\ t # corpus[d]
        /\ corpus' = [corpus EXCEPT ![d] = t]
    /\ UNCHANGED <<index, ipc, todo, report, last, seen>>
    /\ UNCHANGED <<queryVars, uiVars>>

\* a query served while an ingestion run is in progress
ConcurrentSearch ==
    /\ ipc = "running"
    /\ \E q \in 0..(DIM - 1) :
        seen' = [during |-> ipc, results |-> search(index, q, MAX_TOP_K)]
    /\ UNCHANGED <<corpus, index, ipc, todo, report, last>>
    /\ UNCHANGED <<queryVars, uiVars>>

InitIngest ==
    /\ corpus \in [DocSet -> Texts]
    /\ index = <<>>
    /\ ipc = "idle"
    /\ todo = <<>>
    /\ report = EmptyReport
    /\ last = [index |-> <<>>, failed |-> {}, corpus |-> corpus, valid |-> FALSE]
    /\ seen = NothingSeen
    /\ QueryIdle
    /\ UiIdle

NextIngest ==
    \/ IngestStart
    \/ IngestDocument
    \/ IngestFinish
    \/ IngestReturn
    \/ EditDocument
    \/ ConcurrentSearch

SpecIngest == InitIngest /\ [][NextIngest]_vars

----------------------------------------------------------------------------
(* Claims about ingestion *)

\* what a search result list shows of document d: (chunk id, text) pairs
SeenOfDoc(results, d) ==
    {<<results[i].doc_id, results[i].text>> :
        i \in {j \in 1..Len(results) : DocOfId(results[j].doc_id) = d}}

AsSeen(ics) == {<<ics[i].id, ics[i].text>> : i \in 1..Len(ics)}

\* C4: while a corpus is re-ingested into an index that already holds its
\* chunks, the index holds for every document either its complete old chunk
\* set or its complete new one, and so does every search that runs meanwhile.
C4_NoGapDuringReingest ==
    \A d \in DocSet :
        (ipc = "running" /\ last.valid /\ ChunksOfDoc(last.index, d) # <<>>)
        => /\ ChunksOfDoc(index, d) \in
                {ChunksOfDoc(last.index, d), Indexed(d, corpus[d])}
           /\ seen.during = "running" =>
                SeenOfDoc(seen.results, d) \in
                    {AsSeen(ChunksOfDoc(last.index, d)),
                     AsSeen(Indexed(d, corpus[d]))}

C6_FailureIsolated ==
    /\ ipc # "raised"
    /\ ipc = "done" =>
        /\ report.documents_processed + Cardinality(FailedDocs(report))
                = Len(DocIds)
        /\ \A d \in DocSet :
            IF d \in FailedDocs(report)
            THEN ChunksOfDoc(index, d) = <<>>
            ELSE ChunksOfDoc(index, d) = Indexed(d, corpus[d])

C6_Witness ==
    /\ ipc = "done"
    /\ FailedDocs(report) = {DocIds[1]}
    /\ Len(ChunksOfDoc(index, DocIds[2])) >= 2

----------------------------------------------------------------------------
(* Query endpoints: validation and rate limit *)

\* characters of a query text: 0 is the blank, the others are letters
Chars == {0, 1}

QueryTexts == UNION {[1..n -> Chars] : n \in 0..MaxQueryLen}

TopKs == {0, 1, 2, MAX_TOP_K, MAX_TOP_K + 1}

RECURSIVE TrimStart(_)
TrimStart(q) ==
    IF q # <<>> /\ Head(q) = 0 THEN TrimStart(Tail(q)) ELSE q

RECURSIVE TrimEnd(_)
TrimEnd(q) ==
    IF q # <<>> /\ q[Len(q)] = 0 THEN TrimEnd(SubSeq(q, 1, Len(q) - 1)) ELSE q

Trim(q) == TrimEnd(TrimStart(q))

\* a validation that accepts a blank query text and a top_k of 0
ValidateLoosely(q, k) ==
    IF q = <<>> THEN "EMPTY_QUERY"
    ELSE IF k < 0 \/ k > MAX_TOP_K THEN "TOP_K_OUT_OF_RANGE"
    ELSE "ok"

\* the machine-readable reason a request body is refused for, or "ok"
Validate(q, k) ==
    IF Trim(q) = <<>> THEN "EMPTY_QUERY"
    ELSE IF k < 1 \/ k > MAX_TOP_K THEN "TOP_K_OUT_OF_RANGE"
    ELSE "ok"

\* a limiter that lets one request too many through
WithinLimitOffByOne(count) == count <= RATE_LIMIT

\* count: the requests of the client already admitted in this window
WithinLimit(count) == count < RATE_LIMIT

SessionCleared ==
    /\ qvec' = NoVec
    /\ stream' = NoStream
    /\ events' = <<>>
    /\ calls' = NoCalls
    /\ fail' = NoFailure

\* a request arrives: it is validated, then counted against the client's
\* window, and only then a session starts
Submit ==
    /\ sstate = "IDLE"
    /\ \E c \in Clients, q \in QueryTexts, k \in TopKs :
        LET v == Validate(q, k)
            r == [client |-> c, query |-> q, top_k |-> k,
                  ordinal |-> window[c] + 1, verdict |-> "accepted"]
        IN  IF v # "ok"
            THEN /\ req' = [r EXCEPT !.ordinal = 0, !.verdict = v]
                 /\ sstate' = "REJECTED"
                 /\ UNCHANGED window
            ELSE IF ~WithinLimit(window[c])
            THEN /\ req' = [r EXCEPT !.verdict = "RATE_LIMITED"]
                 /\ sstate' = "REJECTED"
                 /\ UNCHANGED window
            ELSE /\ req' = r
                 /\ sstate' = "RETRIEVING"
                 /\ window' = [window EXCEPT ![c] = @ + 1]
    /\ SessionCleared
    /\ UNCHANGED <<ingestVars, uiVars>>

\* the response is complete and the request is discarded
Close ==
    /\ sstate \in {"REJECTED", "DONE", "ERROR"}
    /\ sstate' = "IDLE"
    /\ req' = NoRequest
    /\ SessionCleared
    /\ UNCHANGED <<window>>
    /\ UNCHANGED <<ingestVars, uiVars>>

\* a new rate window begins
Tick ==
    /\ window # [c \in Clients |-> 0]
    /\ window' = [c \in Clients |-> 0]
    /\ UNCHANGED <<req, sstate, qvec, stream, events, calls, fail>>
    /\ UNCHANGED <<ingestVars, uiVars>>

----------------------------------------------------------------------------
(* Retriever and streaming session controller *)

ErrorEvent == [type |-> "error"]

DoneEvent == [type |-> "done"]

\* the i-th fragment of the provider's answer; its text is modelled by i
TokenEvent(i) == [type |-> "token", text |-> i]

\* document ids of the results, in result order, duplicates included
DocIdsWithRepeats(results) ==
    [i \in 1..Len(results) |-> DocOfId(results[i].doc_id)]

InSeq(x, xs) == \E i \in 1..Len(xs) : xs[i] = x

RECURSIVE Distinct(_, _)
Distinct(xs, acc) ==
    IF xs = <<>> THEN acc
    ELSE Distinct(Tail(xs),
                  IF InSeq(Head(xs), acc) THEN acc ELSE Append(acc, Head(xs)))

\* sources that name a document once per chunk
SourcesWithRepeats(results) == DocIdsWithRepeats(results)

\* sources: the distinct document ids of the results, in result order
SourcesOf(results) == Distinct(DocIdsWithRepeats(results), <<>>)

MetadataEvent(results) ==
    [type |-> "metadata", sources |-> SourcesOf(results), chunks |-> results]

TokenCount(evs) == Len(SelectSeq(evs, LAMBDA e : e.type = "token"))

\* a controller that sends the metadata event twice
RetrievedTwice(evs, results) ==
    evs \o <<MetadataEvent(results), MetadataEvent(results)>>

\* RETRIEVING succeeded: exactly one metadata event
Retrieved(evs, results) == Append(evs, MetadataEvent(results))

\* a controller that answers a failed retrieval with empty metadata first
RetrievalFailedWithMetadata(evs) ==
    evs \o <<MetadataEvent(<<>>), ErrorEvent>>

\* RETRIEVING failed: one error event and nothing else
RetrievalFailed(evs) == Append(evs, ErrorEvent)

\* a controller that reports the failure and then goes on streaming
GenerationFailedKeepsStreaming(evs) ==
    [sstate |-> "STREAMING", events |-> Append(evs, ErrorEvent)]

\* STREAMING failed: one error event, and the session is over
GenerationFailed(evs) ==
    [sstate |-> "ERROR", events |-> Append(evs, ErrorEvent)]

\* a client that retries a failed provider call whatever was already sent
RetryTransparently(attempts, tokens) == attempts <= 2

\* whether a failed provider call is tried again: attempts calls were made,
\* tokens token events are out.  Provider errors are not retried.
ShouldRetry(attempts, tokens) == FALSE

\* Retriever step 1: embed the trimmed query text
EmbedQuery ==
    /\ sstate = "RETRIEVING"
    /\ qvec = NoVec
    /\ calls' = [calls EXCEPT !.embed = @ + 1]
    /\ \/ /\ qvec' = embed(Trim(req.query))
          /\ UNCHANGED <<sstate, events, fail>>
       \/ /\ ShouldRetry(calls.embed + 1, TokenCount(events))
          /\ UNCHANGED <<qvec, sstate, events, fail>>
       \/ /\ ~ShouldRetry(calls.embed + 1, TokenCount(events))
          /\ sstate' = "ERROR"
          /\ events' = RetrievalFailed(events)
          /\ fail' = [stage |-> "RETRIEVING", tokens |-> 0]
          /\ UNCHANGED qvec
    /\ UNCHANGED <<window, req, stream>>
    /\ UNCHANGED <<ingestVars, uiVars>>

\* Retriever step 2: search the index; on success the metadata event goes out
SearchIndex ==
    /\ sstate = "RETRIEVING"
    /\ qvec # NoVec
    /\ calls' = [calls EXCEPT !.search = @ + 1]
    /\ \/ /\ events' = Retrieved(events, search(index, qvec, req.top_k))
          /\ sstate' = "STREAMING"
          /\ UNCHANGED fail
       \/ /\ sstate' = "ERROR"
          /\ events' = RetrievalFailed(events)
          /\ fail' = [stage |-> "RETRIEVING", tokens |-> 0]
    /\ UNCHANGED <<window, req, qvec, stream>>
    /\ UNCHANGED <<ingestVars, uiVars>>

\* the prompt is assembled and the initial generation request is made
StartGeneration ==
    /\ sstate = "STREAMING"
    /\ ~stream.started
    /\ calls' = [calls EXCEPT !.generate = @ + 1]
    /\ \/ /\ stream' = [started |-> TRUE, pos |-> 0]
          /\ UNCHANGED <<sstate, events, fail>>
       \/ /\ ShouldRetry(calls.generate + 1, TokenCount(events))
          /\ UNCHANGED <<stream, sstate, events, fail>>
       \/ /\ ~ShouldRetry(calls.generate + 1, TokenCount(events))
          /\ sstate' = GenerationFailed(events).sstate
          /\ events' = GenerationFailed(events).events
          /\ fail' = [stage |-> "STREAMING", tokens |-> TokenCount(events)]
          /\ UNCHANGED stream
    /\ UNCHANGED <<window, req, qvec>>
    /\ UNCHANGED <<ingestVars, uiVars>>

\* one fragment arrives and is forwarded at once as one token event
NextFragment ==
    /\ sstate = "STREAMING"
    /\ stream.started
    /\ stream.pos < MaxFrags
    /\ stream' = [stream EXCEPT !.pos = @ + 1]
    /\ events' = Append(events, TokenEvent(stream.pos + 1))
    /\ UNCHANGED <<window, req, sstate, qvec, calls, fail>>
    /\ UNCHANGED <<ingestVars, uiVars>>

\* the fragment sequence is exhausted
StreamExhausted ==
    /\ sstate = "STREAMING"
    /\ stream.started
    /\ sstate' = "DONE"
    /\ events' = Append(events, DoneEvent)
    /\ UNCHANGED <<window, req, qvec, stream, calls, fail>>
    /\ UNCHANGED <<ingestVars, uiVars>>

\* the provider fails in the middle of the stream
StreamFails ==
    /\ sstate = "STREAMING"
    /\ stream.started
    /\ fail.stage = "none"
    /\ \/ /\ ShouldRetry(calls.generate + 1, TokenCount(events))
          /\ calls' = [calls EXCEPT !.generate = @ + 1]
          /\ stream' = [started |-> TRUE, pos |-> 0]
          /\ UNCHANGED <<sstate, events, fail>>
       \/ /\ ~ShouldRetry(calls.generate + 1, TokenCount(events))
          /\ sstate' = GenerationFailed(events).sstate
          /\ events' = GenerationFailed(events).events
          /\ fail' = [stage |-> "STREAMING", tokens |-> TokenCount(events)]
          /\ UNCHANGED <<stream, calls>>
    /\ UNCHANGED <<window, req, qvec>>
    /\ UNCHANGED <<ingestVars, uiVars>>

\* the index a query is served from: a cleanly ingested corpus
IndexAll(c) == upsert(upsert(<<>>, Indexed(DocIds[1], c[DocIds[1]])),
                      Indexed(DocIds[2], c[DocIds[2]]))

QueryCorpora ==
    {c \in [DocSet -> Texts] : \A d \in DocSet : c[d].len \in {0, MaxLen}}

InitQuery ==
    /\ corpus \in QueryCorpora
    /\ index = IndexAll(corpus)
    /\ ipc = "idle"
    /\ todo = <<>>
    /\ report = EmptyReport
    /\ last = [index |-> index, failed |-> {}, corpus |-> corpus,
               valid |-> TRUE]
    /\ seen = NothingSeen
    /\ QueryIdle
    /\ UiIdle

NextQuery ==
    \/ Submit
    \/ Close
    \/ Tick
    \/ EmbedQuery
    \/ SearchIndex
    \/ StartGeneration
    \/ NextFragment
    \/ StreamExhausted
    \/ StreamFails

SpecQuery == InitQuery /\ [][NextQuery]_vars

----------------------------------------------------------------------------
(* The mock server of the frontend tests *)

\* the body the mocked POST /query answers with; the metadata event of the
\* mocked POST /query/stream carries its sources and chunks
queryResponse ==
    [answer |-> "The answer is **42**.",
     sources |-> <<"guide.md", "faq.md">>,
     chunks |-> <<[doc_id |-> ChunkId("guide.md", 0), score |-> 95,
                   text |-> "Chunk text from guide"],
                  [doc_id |-> ChunkId("faq.md", 1), score |-> 88,
                   text |-> "Chunk text from faq"]>>]

\* the events the mocked POST /query/stream sends
makeSseStream ==
    <<[type |-> "metadata", sources |-> queryResponse.sources,
       chunks |-> queryResponse.chunks],
      [type |-> "token", text |-> queryResponse.answer],
      DoneEvent>>

----------------------------------------------------------------------------
(* Claims about the query endpoints and the event stream *)

Types(evs) == [i \in 1..Len(evs) |-> evs[i].type]

\* metadata, token*
IsOpenStream(evs) ==
    /\ Len(evs) >= 1
    /\ evs[1].type = "metadata"
    /\ \A i \in 2..Len(evs) : evs[i].type = "token"

\* metadata, token*, (done | error)
IsCompleteStream(evs) ==
    /\ Len(evs) >= 2
    /\ IsOpenStream(SubSeq(evs, 1, Len(evs) - 1))
    /\ evs[Len(evs)].type \in {"done", "error"}

C3_StateAfterFailure ==
    fail.stage = "STREAMING" =>
        /\ sstate = "ERROR"
        /\ Len(events) = fail.tokens + 2
        /\ events[1].type = "metadata"
        /\ \A i \in 1..fail.tokens : events[i + 1] = TokenEvent(i)
        /\ events[Len(events)] = ErrorEvent

C3_TerminalStep ==
    sstate \in {"DONE", "ERROR"} =>
        \/ events' = events /\ sstate' = sstate
        \/ sstate' = "IDLE" /\ events' = <<>>

C3_MidStreamFailure == [] C3_StateAfterFailure /\ [][C3_TerminalStep]_vars

C3_Witness ==
    /\ fail.stage = "STREAMING"
    /\ fail.tokens = 2
    /\ Types(events) = <<"metadata", "token", "token", "error">>

\* C7: a request whose query text is empty after trimming or whose top_k is
\* outside 1..MAX_TOP_K is rejected with a validation reason, and no
\* embedding call, index search or generation call is made for it.
C7_InvalidRejected ==
    (req.client # "none"
        /\ (Trim(req.query) = <<>> \/ req.top_k \notin 1..MAX_TOP_K))
    => /\ sstate = "REJECTED"
       /\ req.verdict \in {"EMPTY_QUERY", "TOP_K_OUT_OF_RANGE"}
       /\ calls = NoCalls
       /\ events = <<>>

C7_Witness ==
    /\ sstate = "REJECTED"
    /\ req.top_k = 0
    /\ Trim(req.query) # <<>>
    /\ req.verdict = "TOP_K_OUT_OF_RANGE"

\* C8: a valid request is rejected by the limiter exactly when it is more
\* than the RATE_LIMIT-th of its client in the window; a rejected request is
\* refused at once, never queued, and no retrieval work is done for it.
C8_RateLimit ==
    /\ \A c \in Clients : window[c] <= RATE_LIMIT
    /\ req.verdict = "RATE_LIMITED" =>
        /\ req.ordinal > RATE_LIMIT
        /\ sstate = "REJECTED"
        /\ calls = NoCalls
        /\ events = <<>>
    /\ req.verdict = "accepted" => req.ordinal \in 1..RATE_LIMIT
    /\ (req.client # "none" /\ Validate(req.query, req.top_k) = "ok") =>
        req.verdict \in {"accepted", "RATE_LIMITED"}

C8_Witness ==
    /\ req.verdict = "RATE_LIMITED"
    /\ req.client = "c1"
    /\ window["c2"] = 1

FirstChunkOf(cs, d) ==
    CHOOSE i \in 1..Len(cs) :
        /\ DocOfId(cs[i].doc_id) = d
        /\ \A j \in 1..(i - 1) : DocOfId(cs[j].doc_id) # d

SourcesAreDistinctDocs(srcs, cs) ==
    /\ \A i, j \in 1..Len(srcs) : i # j => srcs[i] # srcs[j]
    /\ {srcs[i] : i \in 1..Len(srcs)}
            = {DocOfId(cs[i].doc_id) : i \in 1..Len(cs)}
    /\ \A i, j \in 1..Len(srcs) :
        i < j => FirstChunkOf(cs, srcs[i]) < FirstChunkOf(cs, srcs[j])

\* C10: in every metadata event, sources has no duplicates, holds exactly
\* the document ids of the chunks, and is ordered by first appearance; so
\* does the mocked /query response.
C10_SourcesDistinctInOrder ==
    /\ SourcesAreDistinctDocs(queryResponse.sources, queryResponse.chunks)
    /\ \A i \in 1..Len(events) :
        events[i].type = "metadata" =>
            SourcesAreDistinctDocs(events[i].sources, events[i].chunks)

C10_Witness ==
    /\ Len(events) >= 1
    /\ events[1].type = "metadata"
    /\ events[1].sources = queryResponse.sources
    /\ Len(events[1].chunks) = 4
    /\ DocIdsWithRepeats(events[1].chunks)
            = <<"guide.md", "faq.md", "faq.md", "guide.md">>

----------------------------------------------------------------------------
(* Frontend: the question form and handleAsk (App.tsx) *)

MaxInFlight == 2     \* most POST /query requests pending at a time

TOP_K == 5           \* the top_k handleAsk asks for

\* a test that takes a text of blanks for a question
NothingTyped(q) == q = <<>>

\* !query.trim(): nothing is left of the text once it is trimmed
Blank(q) == Trim(q) = <<>>

\* an Ask button that stays enabled while a request is pending
AskDisabledWhenBlank(q, l) == Blank(q)

\* the disabled attribute of the Ask button
AskDisabled(q, l) == l \/ Blank(q)

AskLabel(l) == IF l THEN "Asking..." ELSE "Ask"

\* a key handler that does not look at the Shift key
SubmitsOnAnyEnter(key, shift) == key = "Enter"

\* onKeyDown of the textarea: does this key press call the submit handler
SubmitsOnKey(key, shift) == key = "Enter" /\ ~shift

Keys == {"Enter", "a"}

\* bodies POST /query answers with: the test fixture, an answer that cites
\* its only source, and the answer to a question nothing was retrieved for
QueryResponses ==
    {queryResponse,
     [answer |-> "See (Source: guide.md) for details.",
      sources |-> <<"guide.md">>,
      chunks |-> <<queryResponse.chunks[1]>>],
     [answer |-> "No relevant documentation was found.",
      sources |-> <<>>, chunks |-> <<>>]}

Succeeded(r) == [NoOutcome EXCEPT !.settled = "response", !.ok = TRUE,
                    !.status = 200, !.answer = r.answer,
                    !.sources = r.sources, !.chunks = r.chunks]

Refused(s) == [NoOutcome EXCEPT !.settled = "response", !.status = s]

Rejected(isErr, msg) == [NoOutcome EXCEPT !.settled = "rejected",
                            !.isError = isErr, !.message = msg]

SuccessOutcomes == {Succeeded(r) : r \in QueryResponses}

\* a response whose status is not OK, a fetch that rejects with an Error,
\* and a fetch that rejects with a value that is not an Error
FailureOutcomes ==
    {Refused(s) : s \in {404, 500}}
        \cup {Rejected(TRUE, "Failed to fetch"), Rejected(FALSE, "")}

\* a catch block that sets no message
NoMessage(o) == NoError

\* the value handleAsk's catch block hands to setError
ErrorMessage(o) ==
    IF o.settled = "response" THEN <<"Request failed (", o.status, ")">>
    ELSE IF o.isError THEN <<o.message>>
    ELSE <<"Something went wrong">>

Remove(s, i) == SubSeq(s, 1, i - 1) \o SubSeq(s, i + 1, Len(s))

Event(kind) == [NoEvent EXCEPT !.kind = kind]

\* the persistence effect that follows a render in which the question, the
\* answer, the sources or the chunks changed
PersistEffect ==
    session' = Stringify(PersistedState(submittedQuery', answer', sources',
                                        chunks'))

\* handleAsk up to its await: the state it sets and the request it sends
handleAsk ==
    IF Blank(query)
    THEN UNCHANGED askVars
    ELSE /\ query' = <<>>
         /\ loading' = TRUE
         /\ error' = NoError
         /\ submittedQuery' = NoText
         /\ answer' = NoAnswer
         /\ sources' = <<>>
         /\ sourcesOpen' = FALSE
         /\ chunks' = <<>>
         /\ chunksOpen' = FALSE
         /\ inflight' = Append(inflight,
                               [query |-> Trim(query), top_k |-> TOP_K])
         /\ lastAsked' = [pending |-> TRUE]
         /\ PersistEffect

\* the user edits the textarea: onChange hands the new text to setQuery
ChangeQuery ==
    /\ view.page = "home"
    /\ \E q \in QueryTexts :
        /\ q # query
        /\ query' = q
    /\ ev' = Event("change")
    /\ UNCHANGED <<loading, error, submittedQuery, answer, sources, chunks,
                   sourcesOpen, chunksOpen, inflight, session, lastAsked>>
    /\ UNCHANGED <<docsVars, props, call, drawer>>
    /\ UNCHANGED <<ingestVars, queryVars>>

\* a key goes down in the textarea
KeyDown ==
    /\ view.page = "home"
    /\ Blank(query) \/ Len(inflight) < MaxInFlight
    /\ \E key \in Keys, shift \in BOOLEAN :
        IF SubmitsOnKey(key, shift)
        THEN /\ handleAsk
             /\ ev' = [Event("keydown") EXCEPT !.key = key, !.shift = shift,
                            !.typed = query, !.calls = 1]
        ELSE /\ UNCHANGED askVars
             /\ ev' = [Event("keydown") EXCEPT !.key = key, !.shift = shift,
                            !.typed = query]
    /\ UNCHANGED <<docsVars, props, call, drawer>>
    /\ UNCHANGED <<ingestVars, queryVars>>

\* a click on the Ask button; a disabled button takes no click
ClickAsk ==
    /\ view.page = "home"
    /\ ~AskDisabled(query, loading)
    /\ Len(inflight) < MaxInFlight
    /\ handleAsk
    /\ ev' = [Event("click") EXCEPT !.typed = query, !.calls = 1]
    /\ UNCHANGED <<docsVars, props, call, drawer>>
    /\ UNCHANGED <<ingestVars, queryVars>>

\* handleAsk after its await, the response being OK: try block and finally
QuerySucceeds ==
    /\ \E i \in 1..Len(inflight), o \in SuccessOutcomes :
        /\ submittedQuery' = inflight[i].query
        /\ answer' = o.answer
        /\ sources' = o.sources
        /\ chunks' = o.chunks
        /\ loading' = FALSE
        /\ inflight' = Remove(inflight, i)
        /\ lastAsked' = [pending |-> lastAsked.pending /\ i # Len(inflight)]
        /\ ev' = [Event("settled") EXCEPT !.sent = inflight[i], !.outcome = o]
    /\ UNCHANGED <<query, error, sourcesOpen, chunksOpen>>
    /\ PersistEffect
    /\ UNCHANGED <<docsVars, props, call, drawer>>
    /\ UNCHANGED <<ingestVars, queryVars>>

\* handleAsk after its await, the request having failed: catch and finally
QueryFails ==
    /\ \E i \in 1..Len(inflight), o \in FailureOutcomes :
        /\ submittedQuery' = inflight[i].query
        /\ error' = ErrorMessage(o)
        /\ loading' = FALSE
        /\ inflight' = Remove(inflight, i)
        /\ lastAsked' = [pending |-> lastAsked.pending /\ i # Len(inflight)]
        /\ ev' = [Event("settled") EXCEPT !.sent = inflight[i], !.outcome = o]
    /\ UNCHANGED <<query, answer, sources, chunks, sourcesOpen, chunksOpen>>
    /\ PersistEffect
    /\ UNCHANGED <<docsVars, props, call, drawer>>
    /\ UNCHANGED <<ingestVars, queryVars>>

\* what a collapsible panel (Sources, Retrieved Chunks) puts on the page
Nothing == [rendered |-> FALSE, title |-> "", count |-> 0, indicator |-> "",
            items |-> <<>>]

\* a panel that lists its items whether it is open or not
PanelAlwaysListing(title, list, open) ==
    IF Len(list) > 0
    THEN [rendered |-> TRUE, title |-> title, count |-> Len(list),
          indicator |-> IF open THEN "\\u2212" ELSE "+", items |-> list]
    ELSE Nothing

Panel(title, list, open) ==
    IF Len(list) > 0
    THEN [rendered |-> TRUE, title |-> title, count |-> Len(list),
          indicator |-> IF open THEN "\\u2212" ELSE "+",
          items |-> IF open THEN list ELSE <<>>]
    ELSE Nothing

SourcesPanel == Panel("Sources", sources, sourcesOpen)

ChunksPanel == Panel("Retrieved Chunks", chunks, chunksOpen)

\* a click on the header of the Sources panel
ToggleSources ==
    /\ view.page = "home"
    /\ SourcesPanel.rendered
    /\ sourcesOpen' = ~sourcesOpen
    /\ ev' = Event("toggleSources")
    /\ UNCHANGED <<query, loading, error, submittedQuery, answer, sources,
                   chunks, chunksOpen, inflight, session, lastAsked>>
    /\ UNCHANGED <<docsVars, props, call, drawer>>
    /\ UNCHANGED <<ingestVars, queryVars>>

\* a click on the header of the Retrieved Chunks panel
ToggleChunks ==
    /\ view.page = "home"
    /\ ChunksPanel.rendered
    /\ chunksOpen' = ~chunksOpen
    /\ ev' = Event("toggleChunks")
    /\ UNCHANGED <<query, loading, error, submittedQuery, answer, sources,
                   chunks, sourcesOpen, inflight, session, lastAsked>>
    /\ UNCHANGED <<docsVars, props, call, drawer>>
    /\ UNCHANGED <<ingestVars, queryVars>>

\* the page is loaded again in the same tab: the pending requests of the
\* page before are gone, App mounts from what loadPersistedState returns and
\* the effects of the first render write the theme and the entry
Mount ==
    /\ \E navType \in NavigationTypes :
        LET loaded == loadPersistedState(navType, session)
            saved == loaded.saved.state
        IN  /\ submittedQuery' = saved.submittedQuery
            /\ answer' = saved.answer
            /\ sources' = saved.sources
            /\ chunks' = saved.chunks
            /\ ev' = [Event("pageload") EXCEPT !.key = navType,
                        !.calls = IF loaded.entry = NoEntry THEN 1 ELSE 0]
    /\ query' = <<>>
    /\ loading' = FALSE
    /\ error' = NoError
    /\ sourcesOpen' = FALSE
    /\ chunksOpen' = FALSE
    /\ inflight' = <<>>
    /\ lastAsked' = NothingAsked
    /\ PersistEffect
    /\ darkMode' = InitialDarkMode(theme)
    /\ theme' = ThemeValue(darkMode')
    /\ view' = Home
    /\ docList' = <<>>
    /\ docContent' = Undefined
    /\ tasks' = <<>>
    /\ listLoaded' = FALSE
    /\ UNCHANGED themeLog
    /\ UNCHANGED <<props, call, drawer>>
    /\ UNCHANGED <<ingestVars, queryVars>>

\* the backend as the frontend's specifications hold it: nothing ingested,
\* no request being served
BackendIdle ==
    /\ corpus = [d \in DocSet |-> NoDoc]
    /\ index = <<>>
    /\ ipc = "idle"
    /\ todo = <<>>
    /\ report = EmptyReport
    /\ last = [index |-> <<>>, failed |-> {}, corpus |-> corpus,
               valid |-> FALSE]
    /\ seen = NothingSeen
    /\ QueryIdle

InitAsk ==
    /\ BackendIdle
    /\ UiIdle

NextAsk ==
    \/ ChangeQuery
    \/ KeyDown
    \/ ClickAsk
    \/ QuerySucceeds
    \/ QueryFails
    \/ ToggleSources
    \/ ToggleChunks

SpecAsk == InitAsk /\ [][NextAsk]_vars

\* the question form over several page loads of one tab
NextSession ==
    \/ ChangeQuery
    \/ KeyDown
    \/ ClickAsk
    \/ QuerySucceeds
    \/ QueryFails
    \/ Mount

SpecSession == InitAsk /\ [][NextSession]_vars

----------------------------------------------------------------------------
(* Claims about the question form *)

OnlyBlanks(q) == \A i \in 1..Len(q) : q[i] = 0

Blanks(n) == [i \in 1..n |-> 0]

\* t is q without the blanks at its two ends
IsTrimmed(t, q) ==
    /\ t # <<>> => (t[1] # 0 /\ t[Len(t)] # 0)
    /\ \E a, b \in 0..Len(q) : q = Blanks(a) \o t \o Blanks(b)

\* the step is a call of the submit handler by a key press or a click
SubmitCalled == ev'.kind \in {"keydown", "click"} /\ ev'.calls = 1

\* C11: handleAsk sends a POST /query only when the typed text is not blank,
\* and then exactly one, whose body holds the text without the blanks at its
\* ends as `query` and 5 as top_k; a call with an empty text or a text of
\* blanks sends nothing, and nothing but a call of handleAsk sends a request.
C11_AskOnlyNonBlank ==
    [][/\ (SubmitCalled /\ OnlyBlanks(query)) => inflight' = inflight
       /\ (SubmitCalled /\ ~OnlyBlanks(query)) =>
            /\ Len(inflight') = Len(inflight) + 1
            /\ SubSeq(inflight', 1, Len(inflight)) = inflight
            /\ inflight'[Len(inflight')].top_k = 5
            /\ inflight'[Len(inflight')].query # <<>>
            /\ IsTrimmed(inflight'[Len(inflight')].query, query)
       /\ ~SubmitCalled => Len(inflight') <= Len(inflight)]_vars

C11_Witness ==
    /\ ev.kind = "keydown" /\ ev.calls = 1
    /\ ev.typed = <<0, 1>>
    /\ inflight = <<[query |-> <<1>>, top_k |-> 5]>>

\* C12: the Ask button is disabled exactly when loading is true or the text
\* in the textarea is empty or holds blanks only, and its label is
\* 'Asking...' exactly when loading is true ('Ask' otherwise).
C12_AskButton ==
    /\ AskDisabled(query, loading) <=> (loading \/ OnlyBlanks(query))
    /\ AskLabel(loading) = "Asking..." <=> loading
    /\ AskLabel(loading) = "Ask" <=> ~loading

C12_Witness ==
    /\ loading
    /\ query = <<1>>
    /\ AskDisabled(query, loading)
    /\ AskLabel(loading) = "Asking..."

\* C13: a press of Enter without Shift in the textarea calls the submit
\* handler exactly once, and a press of Enter with Shift (like a press of
\* any other key) does not call it.
C13_EnterSubmits ==
    ev.kind = "keydown" =>
        /\ (ev.key = "Enter" /\ ~ev.shift) => ev.calls = 1
        /\ (ev.key = "Enter" /\ ev.shift) => ev.calls = 0
        /\ ev.key # "Enter" => ev.calls = 0

C13_Witness ==
    /\ ev.kind = "keydown" /\ ev.key = "Enter" /\ ~ev.shift
    /\ ev.calls = 1
    /\ ev.typed = <<1>>
    /\ Len(inflight) = 1

\* C15: when a POST /query succeeds, the question shown is the text sent in
\* that request, answer, sources and chunks are the values of its response,
\* and error is null.
C15_SuccessShown ==
    (ev.kind = "settled" /\ ev.outcome.ok) =>
        /\ submittedQuery = ev.sent.query
        /\ answer = ev.outcome.answer
        /\ sources = ev.outcome.sources
        /\ chunks = ev.outcome.chunks
        /\ error = NoError

\* C16: when a POST /query fails, error is 'Request failed (s)' for a
\* response of status s and the thrown Error's message for a rejected fetch,
\* the question shown is the text sent in that request, answer is null and
\* sources and chunks are empty.
C16_FailureShown ==
    (ev.kind = "settled" /\ ~ev.outcome.ok) =>
        /\ ev.outcome.settled = "response" =>
                error = <<"Request failed (", ev.outcome.status, ")">>
        /\ (ev.outcome.settled = "rejected" /\ ev.outcome.isError) =>
                error = <<ev.outcome.message>>
        /\ submittedQuery = ev.sent.query
        /\ answer = NoAnswer
        /\ sources = <<>>
        /\ chunks = <<>>

\* what the claim says of one panel showing `list` with the flag `open`
PanelAsClaimed(panel, list, open) ==
    IF Len(list) = 0
    THEN ~panel.rendered /\ panel = Nothing
    ELSE /\ panel.rendered
         /\ panel.count = Len(list)
         /\ open => (panel.items = list /\ panel.indicator = "\\u2212")
         /\ ~open => (panel.items = <<>> /\ panel.indicator = "+")

\* a click on a panel header flips that panel's flag and nothing else
HeaderClickToggles ==
    /\ ev'.kind = "toggleSources" =>
        /\ sourcesOpen' = ~sourcesOpen
        /\ UNCHANGED <<sources, chunks, chunksOpen>>
    /\ ev'.kind = "toggleChunks" =>
        /\ chunksOpen' = ~chunksOpen
        /\ UNCHANGED <<sources, chunks, sourcesOpen>>

\* C19: the Sources panel and the Retrieved Chunks panel render nothing when
\* their list is empty; otherwise the header shows the length of the list,
\* the items are shown exactly when the panel is open, with '+' on a closed
\* and the minus sign on an open panel, and every click on a header toggles
\* the open flag of that panel once.
C19_Panels ==
    /\ [](/\ PanelAsClaimed(SourcesPanel, sources, sourcesOpen)
          /\ PanelAsClaimed(ChunksPanel, chunks, chunksOpen))
    /\ [][HeaderClickToggles]_vars

C19_Witness ==
    /\ ev.kind = "toggleSources"
    /\ sourcesOpen
    /\ SourcesPanel.count = 2
    /\ SourcesPanel.items = <<"guide.md", "faq.md">>
    /\ ~chunksOpen
    /\ ChunksPanel.rendered
    /\ ChunksPanel.items = <<>>

----------------------------------------------------------------------------
(* Frontend: the QueryInput component, rendered on its own *)

ShowResets == {"omitted", "false", "true"}

QueryInputProps ==
    [query : QueryTexts, loading : BOOLEAN, showReset : ShowResets]

\* the buttons QueryInput renders for props p, by their labels
QueryInput(p) ==
    [textarea |-> p.query,
     buttons |-> {AskLabel(p.loading)},
     disabled |-> IF AskDisabled(p.query, p.loading)
                  THEN {AskLabel(p.loading)} ELSE {}]

\* the parent renders the component with new props
Render ==
    /\ \E p \in QueryInputProps :
        /\ p # props
        /\ props' = p
    /\ ev' = Event("render")
    /\ UNCHANGED <<askVars, docsVars, call, drawer>>
    /\ UNCHANGED <<ingestVars, queryVars>>

\* onChange of the textarea: onQueryChange is called with the new text
InputChange ==
    /\ \E q \in QueryTexts :
        /\ q # props.query
        /\ ev' = [Event("change") EXCEPT !.typed = q]
    /\ UNCHANGED <<askVars, docsVars, props, call, drawer>>
    /\ UNCHANGED <<ingestVars, queryVars>>

\* onKeyDown of the textarea: onSubmit is called for Enter without Shift
InputKeyDown ==
    /\ \E key \in Keys, shift \in BOOLEAN :
        ev' = [Event("keydown") EXCEPT !.key = key, !.shift = shift,
                    !.typed = props.query,
                    !.calls = IF SubmitsOnKey(key, shift) THEN 1 ELSE 0]
    /\ UNCHANGED <<askVars, docsVars, props, call, drawer>>
    /\ UNCHANGED <<ingestVars, queryVars>>

\* onClick of the Ask button: onSubmit is called
InputClickAsk ==
    /\ QueryInput(props).disabled = {}
    /\ ev' = [Event("click") EXCEPT !.typed = props.query, !.calls = 1]
    /\ UNCHANGED <<askVars, docsVars, props, call, drawer>>
    /\ UNCHANGED <<ingestVars, queryVars>>

InitQueryInput ==
    /\ BackendIdle
    /\ AskIdle
    /\ DocsIdle
    /\ props \in QueryInputProps
    /\ call = NoCall
    /\ drawer = DrawerClosed
    /\ ev = NoEvent

NextQueryInput ==
    \/ Render
    \/ InputChange
    \/ InputKeyDown
    \/ InputClickAsk

SpecQueryInput == InitQueryInput /\ [][NextQueryInput]_vars

\* C14: QueryInput shows a 'Start Over' button exactly when its showReset
\* prop is true, not when the prop is omitted or false, and a click on the
\* button calls onReset exactly once.
C14_StartOver ==
    /\ "Start Over" \in QueryInput(props).buttons <=> props.showReset = "true"
    /\ ev.kind = "reset" => ev.calls = 1

----------------------------------------------------------------------------
(* Frontend: theme, navigation and the document browser (App.tsx) *)

MaxDocTasks == 2     \* most GET /api/docs requests pending at a time

\* a click on the theme button, and the theme effect that follows the render
ToggleTheme ==
    /\ view.page \in {"home", "docs"}
    /\ darkMode' = ~darkMode
    /\ theme' = ThemeValue(darkMode')
    /\ themeLog' = LET before == [darkMode |-> darkMode, theme |-> theme]
                   IN  IF Len(themeLog) < 2 THEN Append(themeLog, before)
                       ELSE <<themeLog[2], before>>
    /\ ev' = Event("toggleTheme")
    /\ UNCHANGED <<view, docList, docContent, tasks, listLoaded>>
    /\ UNCHANGED <<askVars, props, call, drawer>>
    /\ UNCHANGED <<ingestVars, queryVars>>

\* file names the docs endpoint serves
FileNames == {"guide.md", "faq.md", "release notes.md"}

\* bodies GET /api/docs answers with
DocLists == {<<"guide.md", "faq.md", "release notes.md">>}

\* contents GET /api/docs/f answers with: an empty document, or f's text
Loaded(text) == [state |-> "loaded", text |-> text]

Contents(f) == {Loaded(<<>>), Loaded(<<"# ", f>>)}

ListTask(f) == [kind |-> "list", file |-> f]

DocTask(f) == [kind |-> "doc", file |-> f]

\* loadDoc up to its await: the request it sends
loadDoc(pending, f) == Append(pending, DocTask(f))

\* navigateToDocs up to its first await
navigateToDocs(f) ==
    /\ view' = [page |-> "docs", selected |-> f]
    /\ docContent' = IF f = NoFile THEN Undefined ELSE docContent
    /\ tasks' = IF Len(docList) = 0 THEN Append(tasks, ListTask(f))
                ELSE IF f # NoFile THEN loadDoc(tasks, f)
                ELSE tasks
    /\ UNCHANGED <<docList, listLoaded>>

\* a click on 'Browse Docs' in the header
BrowseDocs ==
    /\ view.page = "home"
    /\ Len(tasks) < MaxDocTasks
    /\ navigateToDocs(NoFile)
    /\ ev' = Event("browse")
    /\ UNCHANGED <<darkMode, theme, themeLog>>
    /\ UNCHANGED <<askVars, props, call, drawer>>
    /\ UNCHANGED <<ingestVars, queryVars>>

\* a click on 'Back to Assistant' in the header
BackToAssistant ==
    /\ view.page = "docs"
    /\ view' = Home
    /\ ev' = Event("back")
    /\ UNCHANGED <<darkMode, theme, themeLog, docList, docContent, tasks,
                   listLoaded>>
    /\ UNCHANGED <<askVars, props, call, drawer>>
    /\ UNCHANGED <<ingestVars, queryVars>>

\* a click on a document in the sidebar: selectDoc
SelectDoc ==
    /\ view.page = "docs"
    /\ Len(tasks) < MaxDocTasks
    /\ \E i \in 1..Len(docList) :
        /\ view' = [page |-> "docs", selected |-> docList[i]]
        /\ tasks' = loadDoc(tasks, docList[i])
        /\ ev' = [Event("select") EXCEPT !.key = docList[i]]
    /\ UNCHANGED <<darkMode, theme, themeLog, docList, docContent,
                   listLoaded>>
    /\ UNCHANGED <<askVars, props, call, drawer>>
    /\ UNCHANGED <<ingestVars, queryVars>>

\* navigateToDocs after the list request settled: the list is stored, or
\* emptied on failure, and the document it was called for is requested
ListSettles ==
    /\ \E i \in 1..Len(tasks) :
        /\ tasks[i].kind = "list"
        /\ \/ \E data \in DocLists \cup {<<>>} :
                /\ docList' = data
                /\ ev' = [Event("list") EXCEPT !.key = tasks[i].file,
                                !.outcome.settled = "response",
                                !.outcome.ok = TRUE]
           \/ /\ docList' = <<>>
              /\ ev' = [Event("list") EXCEPT !.key = tasks[i].file,
                                !.outcome.settled = "response"]
        /\ listLoaded' = (listLoaded \/ docList' # <<>>)
        /\ tasks' = IF tasks[i].file # NoFile
                    THEN loadDoc(Remove(tasks, i), tasks[i].file)
                    ELSE Remove(tasks, i)
    /\ UNCHANGED <<darkMode, theme, themeLog, view, docContent>>
    /\ UNCHANGED <<askVars, props, call, drawer>>
    /\ UNCHANGED <<ingestVars, queryVars>>

\* loadDoc after its request settled: the content is stored, null on failure
DocSettles ==
    /\ \E i \in 1..Len(tasks) :
        /\ tasks[i].kind = "doc"
        /\ \E c \in Contents(tasks[i].file) \cup {Null} : docContent' = c
        /\ tasks' = Remove(tasks, i)
        /\ ev' = [Event("doc") EXCEPT !.key = tasks[i].file]
    /\ UNCHANGED <<darkMode, theme, themeLog, view, docList, listLoaded>>
    /\ UNCHANGED <<askVars, props, call, drawer>>
    /\ UNCHANGED <<ingestVars, queryVars>>

\* what the content pane of the docs view shows
ContentPane(selected, content) ==
    IF selected = NoFile THEN "Select a document to view."
    ELSE IF content = Undefined THEN "Loading..."
    ELSE IF content.state = "loaded" /\ content.text # <<>> THEN "document"
    ELSE "Failed to load document."

\* the answers the model renders: the test fixture, an answer that cites
\* guide.md, one that cites a file with a blank in its name, and one with a
\* link to another site
AnswerTexts ==
    {queryResponse.answer,
     "See (Source: guide.md) for details.",
     "See (Source: release notes.md).",
     "Visit [example](https://example.com) here."}

Text == [kind |-> "text", label |-> "", dest |-> <<"", "">>]

Marker(name) == [kind |-> "marker", label |-> name, dest |-> <<"", "">>]

Link(label, url) == [kind |-> "link", label |-> label, dest |-> <<"", url>>]

\* an answer as the pieces the renderer tells apart: plain text, citation
\* markers '(Source: name)' and Markdown links '[label](url)'
Segments(a) ==
    CASE a = "See (Source: guide.md) for details."
            -> <<Text, Marker("guide.md"), Text>>
      [] a = "See (Source: release notes.md)."
            -> <<Text, Marker("release notes.md"), Text>>
      [] a = "Visit [example](https://example.com) here."
            -> <<Text, Link("example", "https://example.com"), Text>>
      [] OTHER -> <<Text>>

\* the characters of a name or url by class, as Chars: 1 stands for a run of
\* characters that are not blank, 0 for a blank
Spelling(s) == IF s = "release notes.md" THEN <<1, 0, 1>> ELSE <<1>>

EndsInMd(s) == s \in FileNames

\* answer.replace(/\(Source:\s*([^)]+\.md)\)/g, ...): a marker becomes the
\* Markdown link '[name](#doc/name)'
ReplaceMarker(seg) ==
    IF seg.kind = "marker" /\ EndsInMd(seg.label)
    THEN [kind |-> "link", label |-> seg.label,
          dest |-> <<"#doc/", seg.label>>]
    ELSE seg

\* ReactMarkdown: '[label](dest)' is a link only if dest holds no blank,
\* and is left as text otherwise
ParseLink(seg) ==
    IF seg.kind = "link" /\ \E i \in 1..Len(Spelling(seg.dest[2])) :
                                Spelling(seg.dest[2])[i] = 0
    THEN [seg EXCEPT !.kind = "text"]
    ELSE seg

\* the `a` renderer: a button for an href '#doc/....md', an anchor otherwise
RenderSegment(seg) ==
    IF seg.kind # "link" THEN [tag |-> "text", target |-> ""]
    ELSE IF seg.dest[1] = "#doc/" /\ EndsInMd(seg.dest[2])
    THEN [tag |-> "button", target |-> seg.dest[2]]
    ELSE [tag |-> "a", target |-> seg.dest[2]]

RenderAnswer(a) ==
    [i \in 1..Len(Segments(a)) |->
        RenderSegment(ParseLink(ReplaceMarker(Segments(a)[i])))]

\* a click on a source button in the answer
ClickCitation ==
    /\ view.page = "home"
    /\ answer # NoAnswer
    /\ Len(tasks) < MaxDocTasks
    /\ \E i \in 1..Len(RenderAnswer(answer)) :
        /\ RenderAnswer(answer)[i].tag = "button"
        /\ navigateToDocs(RenderAnswer(answer)[i].target)
        /\ ev' = [Event("citation") EXCEPT
                        !.key = RenderAnswer(answer)[i].target]
    /\ UNCHANGED <<darkMode, theme, themeLog>>
    /\ UNCHANGED <<askVars, props, call, drawer>>
    /\ UNCHANGED <<ingestVars, queryVars>>

\* the App mounts: the mode is read from localStorage and the theme effect
\* stores it; the answer is the one sessionStorage holds, if any
InitDocs ==
    /\ BackendIdle
    /\ query = <<>>
    /\ loading = FALSE
    /\ error = NoError
    /\ submittedQuery = NoText
    /\ answer \in AnswerTexts \cup {NoAnswer}
    /\ sources = <<>>
    /\ chunks = <<>>
    /\ sourcesOpen = FALSE
    /\ chunksOpen = FALSE
    /\ inflight = <<>>
    /\ session = Stringify(PersistedState(NoText, answer, <<>>, <<>>))
    /\ lastAsked = NothingAsked
    /\ \E stored \in StoredThemes :
        /\ darkMode = InitialDarkMode(stored)
        /\ theme = ThemeValue(darkMode)
        /\ ev = [Event("mount") EXCEPT !.key = stored]
    /\ themeLog = <<>>
    /\ view = Home
    /\ docList = <<>>
    /\ docContent = Undefined
    /\ tasks = <<>>
    /\ listLoaded = FALSE
    /\ props = NoProps
    /\ call = NoCall
    /\ drawer = DrawerClosed

NextDocs ==
    \/ ToggleTheme
    \/ BrowseDocs
    \/ BackToAssistant
    \/ SelectDoc
    \/ ListSettles
    \/ DocSettles
    \/ ClickCitation

SpecDocs == InitDocs /\ [][NextDocs]_vars

----------------------------------------------------------------------------
(* Claims about the theme, the document browser and the citations *)

\* C17: dark mode is on at start unless localStorage holds, under
\* 'docs-assistant-theme', a value other than 'dark'; every click on the
\* theme button flips the mode; after every change the stored value is
\* 'dark' exactly when dark mode is on; and two clicks bring back the mode
\* and the stored value there were before them.
C17_Theme ==
    /\ ev.kind = "mount" =>
            (darkMode <=> ~(ev.key # NoTheme /\ ev.key # "dark"))
    /\ theme \in {"dark", "light"}
    /\ theme = "dark" <=> darkMode
    /\ Len(themeLog) >= 1 => themeLog[Len(themeLog)].darkMode = ~darkMode
    /\ Len(themeLog) = 2 =>
            themeLog[1] = [darkMode |-> darkMode, theme |-> theme]

C17_Witness ==
    /\ Len(themeLog) = 2
    /\ ~darkMode
    /\ theme = "light"
    /\ themeLog[2] = [darkMode |-> TRUE, theme |-> "dark"]

\* C18: the content pane of the docs view shows the placeholder when no
\* document is selected, 'Loading...' when one is selected and the content
\* is undefined, 'Failed to load document.' when one is selected and the
\* content is null, and the rendered document when one is selected and its
\* content was loaded.
C18_ContentPane ==
    view.page = "docs" =>
        LET shown == ContentPane(view.selected, docContent)
        IN  /\ view.selected = NoFile =>
                    shown = "Select a document to view."
            /\ (view.selected # NoFile /\ docContent = Undefined) =>
                    shown = "Loading..."
            /\ (view.selected # NoFile /\ docContent = Null) =>
                    shown = "Failed to load document."
            /\ (view.selected # NoFile /\ docContent.state = "loaded") =>
                    shown = "document"

\* C20: every citation marker '(Source: name.md)' of the answer is rendered
\* as a button, a click on it shows the docs view with name.md selected, and
\* a link whose href is not '#doc/....md' is rendered as a plain anchor.
C20_Citations ==
    /\ answer # NoAnswer =>
        \A i \in 1..Len(Segments(answer)) :
            LET seg == Segments(answer)[i]
                shown == RenderAnswer(answer)[i]
            IN  /\ seg.kind = "marker" =>
                        shown = [tag |-> "button", target |-> seg.label]
                /\ seg.kind = "link" => shown.tag = "a"
    /\ ev.kind = "citation" =>
            view = [page |-> "docs", selected |-> ev.key]

----------------------------------------------------------------------------
(* Frontend: stripFrontmatter and formatDocTitle (utils.ts) *)

MaxLines == 5        \* most lines of a document handed to stripFrontmatter

MaxNameLen == 3      \* most characters of a file name before its extension

\* a string is the sequence of its characters
Fence == <<"-", "-", "-">>

\* the lines documents are made of: a fence, indented text, nothing
DocLines == {Fence, <<" ", "x">>, <<>>}

\* the lines joined by "\n"
RECURSIVE Join(_)
Join(ls) ==
    IF Len(ls) = 0 THEN <<>>
    ELSE IF Len(ls) = 1 THEN ls[1]
    ELSE ls[1] \o <<"\n">> \o Join(Tail(ls))

\* content.split("\n")
RECURSIVE Split(_)
Split(s) ==
    IF \E i \in 1..Len(s) : s[i] = "\n"
    THEN LET i == CHOOSE j \in 1..Len(s) :
                      /\ s[j] = "\n"
                      /\ \A k \in 1..(j - 1) : s[k] # "\n"
         IN  <<SubSeq(s, 1, i - 1)>> \o Split(SubSeq(s, i + 1, Len(s)))
    ELSE <<s>>

Documents ==
    {Join(ls) : ls \in UNION {[1..n -> DocLines] : n \in 1..MaxLines}}

\* s has t at position i
HasAt(s, i, t) ==
    /\ i >= 1
    /\ i + Len(t) - 1 <= Len(s)
    /\ SubSeq(s, i, i + Len(t) - 1) = t

Whitespace == {" ", "\n"}

\* String.prototype.trimStart
RECURSIVE trimStart(_)
trimStart(s) ==
    IF s # <<>> /\ s[1] \in Whitespace THEN trimStart(Tail(s)) ELSE s

\* /^---\n[\s\S]*?\n---\n/ : where the closing "\n---\n" of the shortest
\* match starts, 0 when the expression does not match
FrontmatterEnd(content) ==
    LET open == Fence \o <<"\n">>
        close == <<"\n">> \o Fence \o <<"\n">>
        ends == {j \in (Len(open) + 1)..Len(content) : HasAt(content, j, close)}
    IN  IF HasAt(content, 1, open) /\ ends # {}
        THEN CHOOSE j \in ends : \A k \in ends : j <= k
        ELSE 0

stripFrontmatter(content) ==
    LET j == FrontmatterEnd(content)
    IN  trimStart(IF j = 0 THEN content
                  ELSE SubSeq(content, j + Len(Fence) + 2, Len(content)))

\* the characters file names are made of
NameChars == {"a", "B", "-", "_", "'"}

Extension == <<".", "m", "d">>

FileNamesTitled ==
    LET names == UNION {[1..n -> NameChars] : n \in 1..MaxNameLen}
    IN  names \cup {n \o Extension : n \in names}

\* \w of a regular expression
WordChar(c) == c \in {"a", "A", "B", "_"}

\* String.prototype.toUpperCase on one character
toUpperCase(c) == IF c = "a" THEN "A" ELSE c

\* replace(/\.md$/, "")
RemoveMd(s) ==
    IF HasAt(s, Len(s) - Len(Extension) + 1, Extension)
    THEN SubSeq(s, 1, Len(s) - Len(Extension))
    ELSE s

\* replace(/[-_]/g, " ")
SpaceOut(s) == [i \in 1..Len(s) |-> IF s[i] \in {"-", "_"} THEN " " ELSE s[i]]

\* \b\w : a word character at the start or after a character that is none
AtWordBoundary(s, i) == WordChar(s[i]) /\ (i = 1 \/ ~WordChar(s[i - 1]))

\* replace(/\b\w/g, c => c.toUpperCase())
Capitalize(s) ==
    [i \in 1..Len(s) |-> IF AtWordBoundary(s, i) THEN toUpperCase(s[i])
                         ELSE s[i]]

formatDocTitle(filename) == Capitalize(SpaceOut(RemoveMd(filename)))

\* the document pane hands the loaded content, when it is not empty, to
\* stripFrontmatter
StripFrontmatter ==
    /\ \E content \in Documents :
        /\ content # <<>>
        /\ call' = [fn |-> "stripFrontmatter", arg |-> content,
                    result |-> stripFrontmatter(content)]
    /\ UNCHANGED <<askVars, docsVars, props, drawer, ev>>
    /\ UNCHANGED <<ingestVars, queryVars>>

\* the sidebar hands a file name of the list to formatDocTitle
FormatDocTitle ==
    /\ \E filename \in FileNamesTitled :
        call' = [fn |-> "formatDocTitle", arg |-> filename,
                 result |-> formatDocTitle(filename)]
    /\ UNCHANGED <<askVars, docsVars, props, drawer, ev>>
    /\ UNCHANGED <<ingestVars, queryVars>>

InitUtils ==
    /\ BackendIdle
    /\ UiIdle

NextUtils ==
    \/ StripFrontmatter
    \/ FormatDocTitle

SpecUtils == InitUtils /\ [][NextUtils]_vars

----------------------------------------------------------------------------
(* Claims about stripFrontmatter and formatDocTitle *)

\* the line that closes a frontmatter block opened by the first line: the
\* next line "---", 0 when the document does not start with such a block
ClosingLine(ls) ==
    IF ls[1] = Fence /\ \E k \in 2..Len(ls) : ls[k] = Fence
    THEN CHOOSE k \in 2..Len(ls) :
             /\ ls[k] = Fence
             /\ \A m \in 2..(k - 1) : ls[m] # Fence
    ELSE 0

\* the text without its frontmatter block and without leading whitespace
WithoutFrontmatter(content) ==
    LET ls == Split(content)
        k == ClosingLine(ls)
    IN  trimStart(IF k = 0 THEN content ELSE Join(SubSeq(ls, k + 1, Len(ls))))

\* C21: stripFrontmatter removes exactly the frontmatter block at the very
\* start of the document (its first line "---" through the next line "---")
\* and the leading whitespace; a document that does not start with such a
\* block keeps all of its text, separator lines "---" further down included.
C21_StripFrontmatter ==
    call.fn = "stripFrontmatter" => call.result = WithoutFrontmatter(call.arg)

\* the words of a title are what its spaces separate
FirstLetterOfWord(s, i) ==
    /\ s[i] \in {"a", "A", "B"}
    /\ \E b \in 1..i :
        /\ b = 1 \/ s[b - 1] = " "
        /\ \A m \in b..(i - 1) : s[m] # " " /\ s[m] \notin {"a", "A", "B"}

TitleCase(s) ==
    [i \in 1..Len(s) |-> IF FirstLetterOfWord(s, i) THEN toUpperCase(s[i])
                         ELSE s[i]]

\* C22: formatDocTitle removes a trailing ".md", turns every "-" and "_" into
\* a space and upper-cases the first letter of every word; every other
\* character is left as it is.
C22_FormatDocTitle ==
    call.fn = "formatDocTitle" =>
        call.result = TitleCase(SpaceOut(RemoveMd(call.arg)))

----------------------------------------------------------------------------
(* Claims about submitting, the stored state and overlapping requests *)

NothingShown ==
    /\ error = NoError
    /\ submittedQuery = NoText
    /\ answer = NoAnswer
    /\ sources = <<>>
    /\ chunks = <<>>

\* what a submission of a non-blank query sets before its request settles
SubmitClears ==
    (SubmitCalled /\ ~Blank(query)) =>
        /\ query' = <<>>
        /\ loading'
        /\ error' = NoError
        /\ submittedQuery' = NoText
        /\ answer' = NoAnswer
        /\ sources' = <<>>
        /\ chunks' = <<>>
        /\ ~sourcesOpen'
        /\ ~chunksOpen'

\* C23: submitting a non-blank query clears the textarea, sets loading,
\* clears the error, the displayed question, the answer, the sources and the
\* chunks and collapses both panels before the response arrives, so that
\* nothing of an earlier result is shown while the new request is pending.
C23_SubmitClears ==
    /\ [][SubmitClears]_vars
    /\ [](lastAsked.pending => NothingShown)

Current == PersistedState(submittedQuery, answer, sources, chunks)

\* a mount that is not a reload starts from the values stored before it
MountRestores ==
    (ev'.kind = "pageload" /\ ev'.key # "reload") =>
        /\ session # NoEntry
        /\ Current' = Parse(session)

\* a mount that is a reload removes the entry and starts empty
MountOnReload ==
    (ev'.kind = "pageload" /\ ev'.key = "reload") =>
        /\ ev'.calls = 1
        /\ Current' = PersistedState(NoText, NoAnswer, <<>>, <<>>)

\* C24: the sessionStorage entry 'docs-assistant-state' equals the current
\* question, answer, sources and chunks after every change of them; a mount
\* whose navigation type is not 'reload' starts from the stored values, a
\* mount whose navigation type is 'reload' removes the entry and starts with
\* no question, no answer and empty sources and chunks.
C24_SessionState ==
    /\ [](session = Stringify(Current))
    /\ [][MountRestores /\ MountOnReload]_vars

C24_Witness ==
    /\ ev.kind = "pageload"
    /\ ev.key = "back_forward"
    /\ submittedQuery # NoText
    /\ answer # NoAnswer
    /\ sources # <<>>
    /\ session = Stringify(Current)

\* what the settling of a request leaves behind
SettleEnds ==
    ev'.kind = "settled" =>
        /\ ~loading'
        /\ submittedQuery' = ev'.sent.query
        /\ IF ev'.outcome.settled = "response" /\ ev'.outcome.ok
           THEN answer' = ev'.outcome.answer /\ answer' # NoAnswer
           ELSE error' # NoError

\* C26: when the fetch of a submitted query settles, by a response or by a
\* rejection, loading is false again and an answer or an error has been set
\* for that query; once no request is pending loading is false and the
\* button reads 'Ask'.
C26_QueryTerminates ==
    /\ [][SettleEnds]_vars
    /\ [](inflight = <<>> => ~loading /\ AskLabel(loading) = "Ask")

C26_Witness ==
    /\ ev.kind = "settled"
    /\ ev.outcome.settled = "rejected"
    /\ inflight = <<>>
    /\ ~loading
    /\ error # NoError
    /\ submittedQuery = ev.sent.query

\* C27: at most one /query request is pending at any time; while loading is
\* true neither a click on Ask nor Enter in the textarea starts another one;
\* loading is true exactly while a request is pending.
C27_OneRequestInFlight ==
    /\ [](Len(inflight) <= 1)
    /\ [](loading <=> inflight # <<>>)
    /\ [][(loading /\ SubmitCalled) => inflight' = inflight]_vars

\* a response arrives after the one to the query submitted last has arrived
LateResponse == ev'.kind = "settled" /\ ~lastAsked.pending

\* C28: once no /query request is pending, the question displayed, with its
\* answer or its error, is that of the query submitted last: the response to
\* an earlier query does not replace it; an answer and an error are never
\* displayed together.
C28_LatestQueryShown ==
    /\ [][LateResponse =>
            UNCHANGED <<submittedQuery, answer, error, sources, chunks>>]_vars
    /\ [](~(answer # NoAnswer /\ error # NoError))

----------------------------------------------------------------------------
(* Claims about the document list, the document shown and the drawer *)

\* the step is a call of navigateToDocs
Navigates == ev'.kind \in {"browse", "citation"}

\* the step sends a request for the document list
RequestsList ==
    /\ Len(tasks') = Len(tasks) + 1
    /\ tasks'[Len(tasks')].kind = "list"

\* C25: navigateToDocs requests the document list only when the list held is
\* empty, and switches to the docs page in any case; once a non-empty list
\* has been loaded no later navigation requests it again; a failed list
\* request leaves the list empty.
C25_ListFetchedOnce ==
    /\ [][Navigates =>
            /\ RequestsList <=> Len(docList) = 0
            /\ view'.page = "docs"]_vars
    /\ [][(Navigates /\ listLoaded) => ~RequestsList]_vars
    /\ [][(ev'.kind = "list" /\ ~ev'.outcome.ok) => docList' = <<>>]_vars

\* the document whose text the content is
DocumentOf(content) == content.text[2]

\* C29: in the docs view the rendered document is the selected one; after
\* selectDoc(f) or navigateToDocs(f) the pane shows 'Loading...' until the
\* response for f has arrived, in whatever order the responses arrive.
C29_SelectedDocShown ==
    /\ [](view.page = "docs" /\
            ContentPane(view.selected, docContent) = "document"
                => DocumentOf(docContent) = view.selected)
    /\ [][ev'.kind \in {"select", "citation"} =>
            ContentPane(view'.selected, docContent') = "Loading..."]_vars

----------------------------------------------------------------------------
(* Frontend: the DocBrowser component, rendered on its own *)

\* the props a parent hands to DocBrowser: the list, the selection (in view)
\* and the content; onSelectDoc is a callback whose calls ev records
DocBrowserProps ==
    /\ docList \in DocLists \cup {<<>>}
    /\ view \in {[page |-> "docs", selected |-> f] :
                    f \in FileNames \cup {NoFile}}
    /\ docContent \in {Undefined, Null}

\* the drawer and its backdrop are in the page
DrawerRendered(d) == d.open \/ d.closing

\* a closeDrawer that takes the drawer away at once
CloseAtOnce(d) == DrawerClosed

closeDrawer(d) == [d EXCEPT !.closing = TRUE]

\* the handler of the drawer's animation-end event
onAnimationEnd(d) == IF d.closing THEN DrawerClosed ELSE d

\* the parent renders DocBrowser again, with another selection and content
RenderDocBrowser ==
    /\ view' \in {[page |-> "docs", selected |-> f] :
                    f \in FileNames \cup {NoFile}}
    /\ docContent' \in {Undefined, Null}
    /\ ev' = Event("render")
    /\ UNCHANGED <<darkMode, theme, themeLog, docList, tasks, listLoaded>>
    /\ UNCHANGED <<askVars, props, call, drawer>>
    /\ UNCHANGED <<ingestVars, queryVars>>

\* a click on the edge tab
ClickEdgeTab ==
    /\ drawer' = [drawer EXCEPT !.open = TRUE]
    /\ ev' = Event("edgeTab")
    /\ UNCHANGED <<askVars, docsVars, props, call>>
    /\ UNCHANGED <<ingestVars, queryVars>>

\* a click on the backdrop of the drawer
ClickBackdrop ==
    /\ DrawerRendered(drawer)
    /\ drawer' = closeDrawer(drawer)
    /\ ev' = Event("backdrop")
    /\ UNCHANGED <<askVars, docsVars, props, call>>
    /\ UNCHANGED <<ingestVars, queryVars>>

\* a click on the close button in the head of the drawer; the click stops at
\* the nav element and does not reach the backdrop
ClickCloseButton ==
    /\ DrawerRendered(drawer)
    /\ drawer' = closeDrawer(drawer)
    /\ ev' = Event("closeButton")
    /\ UNCHANGED <<askVars, docsVars, props, call>>
    /\ UNCHANGED <<ingestVars, queryVars>>

\* a click on a document in the drawer: handleMobileSelect
MobileSelect ==
    /\ DrawerRendered(drawer)
    /\ \E i \in 1..Len(docList) :
        ev' = [Event("mobileSelect") EXCEPT !.key = docList[i], !.calls = 1]
    /\ drawer' = closeDrawer(drawer)
    /\ UNCHANGED <<askVars, docsVars, props, call>>
    /\ UNCHANGED <<ingestVars, queryVars>>

\* a click on a document in the desktop sidebar: onSelectDoc, no drawer
DesktopSelect ==
    /\ \E i \in 1..Len(docList) :
        ev' = [Event("desktopSelect") EXCEPT !.key = docList[i], !.calls = 1]
    /\ UNCHANGED <<askVars, docsVars, props, call, drawer>>
    /\ UNCHANGED <<ingestVars, queryVars>>

\* an animation of the drawer (sliding in or out) has ended
AnimationEnd ==
    /\ DrawerRendered(drawer)
    /\ drawer' = onAnimationEnd(drawer)
    /\ ev' = Event("animationEnd")
    /\ UNCHANGED <<askVars, docsVars, props, call>>
    /\ UNCHANGED <<ingestVars, queryVars>>

InitDrawer ==
    /\ BackendIdle
    /\ AskIdle
    /\ darkMode = TRUE
    /\ theme = "dark"
    /\ themeLog = <<>>
    /\ DocBrowserProps
    /\ tasks = <<>>
    /\ listLoaded = FALSE
    /\ props = NoProps
    /\ call = NoCall
    /\ drawer = DrawerClosed
    /\ ev = NoEvent

NextDrawer ==
    \/ RenderDocBrowser
    \/ ClickEdgeTab
    \/ ClickBackdrop
    \/ ClickCloseButton
    \/ MobileSelect
    \/ DesktopSelect
    \/ AnimationEnd

SpecDrawer == InitDrawer /\ [][NextDrawer]_vars

\* the step is one of the three ways of closing the drawer
CloseAction == ev'.kind \in {"backdrop", "closeButton", "mobileSelect"}

\* C30: in the mobile drawer of DocBrowser drawerClosing implies drawerOpen
\* in every reachable state; the edge tab opens the drawer; the backdrop, the
\* close button and the selection of a document in the drawer only start the
\* closing and call onSelectDoc at most once; the drawer is fully closed
\* (both flags false) only by an animation-end event that arrives while it
\* is closing.
C30_Drawer ==
    /\ [](drawer.closing => drawer.open)
    /\ [][ev'.kind = "edgeTab" => drawer'.open]_vars
    /\ [][CloseAction =>
            /\ drawer' = [open |-> drawer.open, closing |-> TRUE]
            /\ ev'.calls <= 1
            /\ ev'.kind = "mobileSelect" => ev'.calls = 1]_vars
    /\ [][(drawer # DrawerClosed /\ drawer' = DrawerClosed) =>
            ev'.kind = "animationEnd" /\ drawer.closing]_vars

C30_Witness ==
    /\ ev.kind = "animationEnd"
    /\ drawer = DrawerClosed
    /\ docList # <<>>

====
